---- MODULE Spec2Model ----
(***************************************************************************)
(* Model of the PMASW parameter-grid engine (src/PMASW.py), of the objects *)
(* it cooperates with (src/PassiveData.py, src/Receivers.py), of the       *)
(* dispersion-curve Peaker (src/Peaker.py) and of the detrending step of   *)
(* the DataPreprocessor (src/DataPrepocessor.py).                          *)
(*                                                                         *)
(* Numbers.  Velocities are whole metres per second, sampling intervals    *)
(* whole seconds, and frequencies are counted in units of 1/FreqScale Hz,  *)
(* FreqScale chosen so that every 1/dt/nt and 1/2/dt of the model is a     *)
(* whole number of units: the arithmetic of the velocity and frequency     *)
(* grids is exact.  Angles are stored in radians counted in units of       *)
(* pi/PI (PI units make one half turn) and exposed in whole degrees.  The  *)
(* one place where IEEE-754 rounding changes a grid by a whole entry, the  *)
(* length np.arange computes for the azimuth grid, is modelled by          *)
(* RoundsUp, the set of (start, stop, step) for which the double-precision *)
(* quotient (stop - start) / step exceeds the exact one.                   *)
(***************************************************************************)
EXTENDS Integers, Sequences, FiniteSets, TLC

VARIABLES pmasw,        \* the PMASW object: one field per attribute
          lastOp,       \* name of the last operation that returned normally
          manualGrid,   \* per axis: the accepted manual override still in force, <<>> if none
          ceCall,       \* what the last compute_energy call was given and did
          peaker,       \* the Peaker object: one field per attribute
          peakCall,     \* what the last peak_dispersuon_curve call was given and did
          record        \* the PassiveData object a DataPreprocessor works on

vars == <<pmasw, lastOp, manualGrid, ceCall, peaker, peakCall, record>>

----------------------------------------------------------------------------
(* Bounds of the model *)

MaxNt   == 3    \* window lengths 1..MaxNt samples
MaxV    == 4    \* velocities and velocity steps 1..MaxV
MaxRows == 5    \* records of 1..MaxRows time samples, arrays of 1..MaxRows receivers
MaxCols == 2    \* records of 1..MaxCols channels

----------------------------------------------------------------------------
(* Arithmetic helpers *)

Max(a, b) == IF a >= b THEN a ELSE b

Min(a, b) == IF a <= b THEN a ELSE b

RECURSIVE Gcd(_, _)
Gcd(a, b) == IF b = 0 THEN a ELSE Gcd(b, a % b)

RECURSIVE LcmUpTo(_)
LcmUpTo(n) == IF n <= 1 THEN 1 ELSE (LcmUpTo(n - 1) * n) \div Gcd(LcmUpTo(n - 1), n)

\* ceil(a / b) for b > 0
CeilDiv(a, b) == -((-a) \div b)

\* Units per hertz: a multiple of 4, of 2 * dt, of dt * nt and of 100 * dt for the dt <= 2
\* and nt <= MaxNt + 1 of the model.
FreqScale == 200 * LcmUpTo(MaxNt + 1)

Hz(n) == n * FreqScale

QuarterHz(n) == n * (FreqScale \div 4)

\* PI of PMASW.py, in the model's angle units (one unit is a third of a degree).
PI == 540

----------------------------------------------------------------------------
(* Python values passed to the setters *)

\* A scalar argument: its Python type and, for a number, its value.
IsNumber(value) == value.t \in {"int", "float"}

IsInt(value) == value.t = "int"

\* The outcome of a call: returned normally or raised, and the object afterwards.
Returned(self) == [ok |-> TRUE, self |-> self]

Raised(self) == [ok |-> FALSE, self |-> self]

----------------------------------------------------------------------------
(* numpy.arange *)

ArangeLen(start, stop, step) == Max(0, CeilDiv(stop - start, step))

\* start, start + step, ... of the given length
ArangeOfLen(start, step, len) == [i \in 1..len |-> start + (i - 1) * step]

Arange(start, stop, step) == ArangeOfLen(start, step, ArangeLen(start, stop, step))

\* Degrees to stored radians and back, as the setters and getters compute them.
ToRad(deg) == (PI * (deg % 360)) \div 180

ToDeg(rad) == (180 * rad) \div PI

\* The (start, stop, step), in degrees, among the angles of the model for which
\* ceil((PI*(stop/180) - PI*(start/180)) / (PI*(step/180))) evaluated in IEEE-754
\* double precision is one more than ceil((stop - start) / step).
RoundsUpDeg == { <<0, 75, 15>> }

RoundsUp == { <<ToRad(t[1]), ToRad(t[2]), ToRad(t[3])>> : t \in RoundsUpDeg }

\* The length np.arange computes from double-precision radians.
ArangeLenRad(start, stop, step) ==
    ArangeLen(start, stop, step) + (IF <<start, stop, step>> \in RoundsUp THEN 1 ELSE 0)

----------------------------------------------------------------------------
(* class PMASW: the grid generators *)

\* Mutant: the stop of the range is v_max itself, without the extra step.
define_velocities_exclusive(self) ==
    [self EXCEPT !.velocities = Arange(self.v_min, self.v_max, self.v_step)]

define_velocities(self) ==
    [self EXCEPT !.velocities = Arange(self.v_min, self.v_max + self.v_step, self.v_step)]

define_freqs(self) ==
    LET df == (Hz(1) \div self.dt) \div self.nt
    IN  [self EXCEPT !.df = df,
                     !.freqs = Arange(self.f_min, self.f_max + df, df)]

\* np.arange raises on a zero step (the division by zero in the length).
define_thetas(self) ==
    IF self.theta_step = 0
    THEN Raised(self)
    ELSE Returned([self EXCEPT !.thetas =
             ArangeOfLen(self.theta_min, self.theta_step,
                         ArangeLenRad(self.theta_min, self.theta_max, self.theta_step))])

----------------------------------------------------------------------------
(* class PMASW: the bound setters *)

dt_setter(self, value) ==
    IF ~IsNumber(value) THEN Raised(self)
    ELSE IF value.v <= 0 THEN Raised(self)
    ELSE Returned(define_freqs([self EXCEPT !.dt = value.v]))

\* Mutant: the comparison with the stored maximum is missing.
v_min_setter_unordered(self, value) ==
    IF ~IsNumber(value) THEN Raised(self)
    ELSE IF value.v <= 0 THEN Raised(self)
    ELSE Returned(define_velocities([self EXCEPT !.v_min = value.v]))

v_min_setter(self, value) ==
    IF ~IsNumber(value) THEN Raised(self)
    ELSE IF value.v <= 0 THEN Raised(self)
    ELSE IF value.v >= self.v_max THEN Raised(self)
    ELSE Returned(define_velocities([self EXCEPT !.v_min = value.v]))

v_max_setter(self, value) ==
    IF ~IsNumber(value) THEN Raised(self)
    ELSE IF value.v <= 0 THEN Raised(self)
    ELSE IF value.v <= self.v_min THEN Raised(self)
    ELSE Returned(define_velocities([self EXCEPT !.v_max = value.v]))

\* Mutant: the setter regenerates the frequency grid as well.
v_step_setter_regenerates_all(self, value) ==
    IF ~IsNumber(value) THEN Raised(self)
    ELSE IF value.v <= 0 THEN Raised(self)
    ELSE Returned(define_freqs(define_velocities([self EXCEPT !.v_step = value.v])))

v_step_setter(self, value) ==
    IF ~IsNumber(value) THEN Raised(self)
    ELSE IF value.v <= 0 THEN Raised(self)
    ELSE Returned(define_velocities([self EXCEPT !.v_step = value.v]))

f_min_setter(self, value) ==
    IF ~IsNumber(value) THEN Raised(self)
    ELSE IF value.v <= 0 THEN Raised(self)
    ELSE IF value.v >= self.f_max THEN Raised(self)
    ELSE Returned(define_freqs([self EXCEPT !.f_min = value.v]))

f_max_setter(self, value) ==
    IF ~IsNumber(value) THEN Raised(self)
    ELSE IF value.v <= 0 THEN Raised(self)
    ELSE IF value.v > (Hz(1) \div 2) \div self.dt THEN Raised(self)
    ELSE IF value.v <= self.f_min THEN Raised(self)
    ELSE Returned(define_freqs([self EXCEPT !.f_max = value.v]))

theta_min_setter(self, value) ==
    IF ~IsNumber(value) THEN Raised(self)
    ELSE IF ToRad(value.v) > self.theta_max THEN Raised(self)
    ELSE define_thetas([self EXCEPT !.theta_min = ToRad(value.v)])

theta_max_setter(self, value) ==
    IF ~IsNumber(value) THEN Raised(self)
    ELSE IF ToRad(value.v) < self.theta_min THEN Raised(self)
    ELSE define_thetas([self EXCEPT !.theta_max = ToRad(value.v)])

theta_step_setter(self, value) ==
    IF ~IsNumber(value) THEN Raised(self)
    ELSE define_thetas([self EXCEPT !.theta_step = ToRad(value.v)])

nt_setter(self, value) ==
    IF ~IsInt(value) THEN Raised(self)
    ELSE IF value.v <= 0 THEN Raised(self)
    ELSE Returned(define_freqs([self EXCEPT !.nt = value.v]))

\* The getters of the bounds: angles are exposed in degrees.
theta_min_getter(self) == ToDeg(self.theta_min)

theta_max_getter(self) == ToDeg(self.theta_max)

theta_step_getter(self) == ToDeg(self.theta_step)

----------------------------------------------------------------------------
(* class PMASW: the manual grid overrides and the grid getters.  A stored grid
   is held as its entries in storage order. *)

\* An array argument: whether it is a numpy.ndarray, its dtype, its shape (one
\* or two axes) and its entries in storage order, row after row.
IsNdarray(value) == value.t = "ndarray"

DtypeOk(value) == value.dtype \in {"int32", "float64"}

\* len(value): the length of the first axis.
ndarray_len(value) == value.shape[1]

\* value <= bound, value < bound and value > bound of numpy: the array of the
\* comparisons, entry by entry.
less_equal(value, bound) ==
    [shape |-> value.shape, a |-> [i \in 1..Len(value.a) |-> value.a[i] <= bound]]

less(value, bound) ==
    [shape |-> value.shape, a |-> [i \in 1..Len(value.a) |-> value.a[i] < bound]]

greater(value, bound) ==
    [shape |-> value.shape, a |-> [i \in 1..Len(value.a) |-> value.a[i] > bound]]

\* Python's any() on an array of comparisons: it walks the first axis and takes
\* the truth value of each item.  An item of a one-axis array is a boolean; an
\* item of a two-axis array is a row, whose truth value is its one entry, and
\* which has no truth value (ValueError) when it holds more than one entry.
\* The first axis is not empty and rows hold at least one entry here.
any(mask) ==
    IF Len(mask.shape) = 2 /\ mask.shape[2] > 1 THEN "ValueError"
    ELSE IF \E i \in 1..Len(mask.a) : mask.a[i] THEN "True" ELSE "False"

\* PI * (value % 360 / 180) of numpy, entry by entry.
to_radians(value) == [i \in 1..Len(value.a) |-> ToRad(value.a[i])]

velocities_setter(self, value) ==
    IF ~IsNdarray(value) THEN Raised(self)
    ELSE IF ndarray_len(value) = 0 THEN Raised(self)
    ELSE IF ~DtypeOk(value) THEN Raised(self)
    ELSE IF any(less_equal(value, 0)) # "False" THEN Raised(self)
    ELSE Returned([self EXCEPT !.velocities = value.a])

\* Mutant: the angles are stored as given, in degrees.
thetas_setter_unconverted(self, value) ==
    IF ~IsNdarray(value) THEN Raised(self)
    ELSE IF ndarray_len(value) = 0 THEN Raised(self)
    ELSE IF ~DtypeOk(value) THEN Raised(self)
    ELSE Returned([self EXCEPT !.thetas = value.a])

thetas_setter(self, value) ==
    IF ~IsNdarray(value) THEN Raised(self)
    ELSE IF ndarray_len(value) = 0 THEN Raised(self)
    ELSE IF ~DtypeOk(value) THEN Raised(self)
    ELSE Returned([self EXCEPT !.thetas = to_radians(value)])

freqs_setter(self, value) ==
    IF ~IsNdarray(value) THEN Raised(self)
    ELSE IF ndarray_len(value) = 0 THEN Raised(self)
    ELSE IF ~DtypeOk(value) THEN Raised(self)
    ELSE IF any(less(value, 0)) # "False" THEN Raised(self)
    ELSE IF any(greater(value, (Hz(1) \div self.dt) \div 2)) # "False" THEN Raised(self)
    ELSE Returned([self EXCEPT !.freqs = value.a])

velocities_getter(self) == self.velocities

freqs_getter(self) == self.freqs

thetas_getter(self) == [i \in 1..Len(self.thetas) |-> ToDeg(self.thetas[i])]

----------------------------------------------------------------------------
(* class PMASW: construction *)

\* np.array([]): one axis of length 0.  An array is its shape and its entries,
\* nested by axis (a 0-dimensional array keeps its one number in a).
EmptyArray == [shape |-> <<0>>, a |-> <<>>]

DefaultVMin == 1

DefaultVStep == 10

DefaultNt == 100

\* The attributes as __init__ first sets them; df does not exist yet (0).
Defaults ==
    [ f_min |-> Hz(0), v_min |-> DefaultVMin, v_step |-> DefaultVStep,
      theta_min |-> (PI * 0) \div 180, theta_max |-> (PI * 180) \div 180,
      theta_step |-> (PI * 10) \div 180,
      freqs |-> <<>>, velocities |-> <<>>, thetas |-> <<>>,
      dt |-> 1, nt |-> DefaultNt, v_max |-> 100, f_max |-> Hz(100),
      df |-> 0, energy |-> EmptyArray, en_vel_freq |-> EmptyArray,
      en_f_theta |-> EmptyArray ]

\* The constructor runs its setters in order; the first one to raise ends it.
PMASW_init(dt, nt, v_max, f_max) ==
    LET r1 == dt_setter(Defaults, dt)
        r2 == IF r1.ok THEN nt_setter(r1.self, nt) ELSE r1
        r3 == IF r2.ok THEN v_max_setter(r2.self, v_max) ELSE r2
        r4 == IF r3.ok THEN f_max_setter(r3.self, f_max) ELSE r3
    IN  IF r4.ok THEN define_thetas(r4.self) ELSE r4

----------------------------------------------------------------------------
(* class PassiveData, class Receivers, PMASW.compute_energy, PMASW.vf and
   PMASW.ftheta *)

\* A record of rows time samples by cols channels; sample (i, j) carries the
\* number 10 * i + j, so that a window shows which rows it was cut from.
PassiveData(rows, cols) ==
    [ seismogram |-> [i \in 1..rows |-> [j \in 1..cols |-> 10 * i + j]],
      nt |-> rows, nx |-> cols ]

\* The accessor compute_energy calls on the record: the sample matrix.
get_seismogram(data) == data.seismogram

Receivers(n) == [x |-> [i \in 1..n |-> i], y |-> [i \in 1..n |-> i]]

\* seq[lo:hi] of Python, on the first axis.
Slice(seq, lo, hi) == SubSeq(seq, lo + 1, Min(hi, Len(seq)))

\* The external kernel fast_pmasw.compute_energy_, by its calling contract: a
\* deterministic function of its inputs giving one signed number per
\* (velocity, frequency, azimuth); this stand-in tells windows apart by their
\* first row and their length.
compute_energy_(seismogram_window, freqs, velocities, thetas, x, y) ==
    [v \in 1..Len(velocities) |-> [f \in 1..Len(freqs) |-> [a \in 1..Len(thetas) |->
        (IF (v + f + a + Len(seismogram_window)) % 2 = 0 THEN 1 ELSE -1)
            * ((seismogram_window[1][1] \div 10) + 4 * v + 2 * f + a)]]]

Abs(n) == IF n < 0 THEN -n ELSE n

\* Mutant: the azimuth axis of the volume is collapsed to one entry.
energy_shape_collapsed(self) == <<Len(self.velocities), Len(self.freqs), Min(1, Len(self.thetas))>>

\* (self._velocities.size, self._freqs.size, self._thetas.size)
energy_shape(self) == <<Len(self.velocities), Len(self.freqs), Len(self.thetas)>>

\* np.zeros of a three-axis shape.
zeros(shape) == [v \in 1..shape[1] |-> [f \in 1..shape[2] |-> [a \in 1..shape[3] |-> 0]]]

\* Mutant: the running total starts from the previous volume when the shapes agree.
energy_merged(self) ==
    IF self.energy.shape = energy_shape(self) THEN self.energy.a ELSE zeros(energy_shape(self))

\* The running total before the first window: energy = np.zeros((...)).
energy_zeroed(self) == zeros(energy_shape(self))

\* Mutant: the kernel output is added with its sign.
add_abs_signed(energy, out) ==
    [v \in 1..Len(energy) |-> [f \in 1..Len(energy[v]) |-> [a \in 1..Len(energy[v][f]) |->
        energy[v][f][a] + out[v][f][a]]]]

\* energy += np.abs(out)
add_abs(energy, out) ==
    [v \in 1..Len(energy) |-> [f \in 1..Len(energy[v]) |-> [a \in 1..Len(energy[v][f]) |->
        energy[v][f][a] + Abs(out[v][f][a])]]]

\* The loop of compute_energy over the windows it cuts, in order.
RECURSIVE accumulate(_, _, _, _)
accumulate(energy, self, windows, recievers) ==
    IF windows = <<>> THEN energy
    ELSE accumulate(add_abs(energy, compute_energy_(Head(windows), self.freqs, self.velocities,
                                                    self.thetas, recievers.x, recievers.y)),
                    self, Tail(windows), recievers)

\* Mutant: a trailing short window is processed too.
compute_energy_padded(self, data, recievers, fails_at) ==
    LET seismogram == get_seismogram(data)
        n_windows == CeilDiv(data.nt, self.nt)
        window(window_i) == Slice(seismogram, window_i * self.nt, (window_i + 1) * self.nt)
        windows == [w \in 1..n_windows |-> window(w - 1)]
    IN  IF data.nt # Len(recievers.x)
        THEN [ok |-> FALSE, error |-> "ValueError", self |-> self, windows |-> <<>>]
        ELSE IF fails_at \in 1..n_windows
        THEN [ok |-> FALSE, error |-> "KernelError", self |-> self,
              windows |-> [w \in 1..fails_at |-> window(w - 1)]]
        ELSE [ok |-> TRUE, error |-> "none",
              self |-> [self EXCEPT !.energy =
                          [shape |-> energy_shape(self),
                           a |-> accumulate(energy_zeroed(self), self, windows,
                                            recievers)]],
              windows |-> windows]

\* fails_at = j > 0: the external kernel raises in its j-th invocation of this call.
compute_energy(self, data, recievers, fails_at) ==
    LET seismogram == get_seismogram(data)
        data_length == data.nt
        data_num_rec == data.nt
        position_rec_x == recievers.x
        n_windows == data_length \div self.nt
        window(window_i) == Slice(seismogram, window_i * self.nt, (window_i + 1) * self.nt)
        windows == [w \in 1..n_windows |-> window(w - 1)]
    IN  IF data_num_rec # Len(position_rec_x)
        THEN [ok |-> FALSE, error |-> "ValueError", self |-> self, windows |-> <<>>]
        ELSE IF fails_at \in 1..n_windows
        THEN [ok |-> FALSE, error |-> "KernelError", self |-> self,
              windows |-> [w \in 1..fails_at |-> window(w - 1)]]
        ELSE [ok |-> TRUE, error |-> "none",
              self |-> [self EXCEPT !.energy =
                          [shape |-> energy_shape(self),
                           a |-> accumulate(energy_zeroed(self), self, windows,
                                            recievers)]],
              windows |-> windows]

\* What a property read gives its caller: an array, None, or nothing when it raises.
Gives(self, value) ==
    [ok |-> TRUE, error |-> "none", returns |-> "ndarray", value |-> value, self |-> self]

GivesNone(self) ==
    [ok |-> TRUE, error |-> "none", returns |-> "None", value |-> EmptyArray, self |-> self]

Fails(self, error) ==
    [ok |-> FALSE, error |-> error, returns |-> "nothing", value |-> EmptyArray, self |-> self]

RECURSIVE SumSeq(_)
SumSeq(seq) == IF seq = <<>> THEN 0 ELSE Head(seq) + SumSeq(Tail(seq))

\* np.sum(array, axis=2): numpy refuses an axis the array does not have.
sum_axis2(array) ==
    [shape |-> <<array.shape[1], array.shape[2]>>,
     a |-> [v \in 1..array.shape[1] |-> [f \in 1..array.shape[2] |-> SumSeq(array.a[v][f])]]]

\* np.sum(array, axis=0) of an array of one axis (a number) or of three.
sum_axis0(array) ==
    IF Len(array.shape) = 1 THEN [shape |-> <<>>, a |-> <<SumSeq(array.a)>>]
    ELSE [shape |-> <<array.shape[2], array.shape[3]>>,
          a |-> [f \in 1..array.shape[2] |-> [th \in 1..array.shape[3] |->
                    SumSeq([v \in 1..array.shape[1] |-> array.a[v][f][th]])]]]

\* Mutant: the velocity axis is summed out instead of the azimuth axis.
vf_over_velocities(self) ==
    IF Len(self.energy.shape) = 0 THEN Fails(self, "ValueError")
    ELSE IF Len(self.energy.shape) < 3 THEN Fails(self, "AxisError")
    ELSE LET en_vel_freq == sum_axis0(self.energy)
         IN  Gives([self EXCEPT !.en_vel_freq = en_vel_freq], en_vel_freq)

vf(self) ==
    IF Len(self.energy.shape) = 0 THEN Fails(self, "ValueError")
    ELSE IF Len(self.energy.shape) < 3 THEN Fails(self, "AxisError")
    ELSE LET en_vel_freq == sum_axis2(self.energy)
         IN  Gives([self EXCEPT !.en_vel_freq = en_vel_freq], en_vel_freq)

\* The body ends with the assignment: the caller gets None.
ftheta(self) ==
    IF Len(self.energy.shape) = 0 THEN Fails(self, "ValueError")
    ELSE GivesNone([self EXCEPT !.en_f_theta = sum_axis0(self.energy)])

----------------------------------------------------------------------------
(* class Peaker *)

\* The array setters v_p and f_p run the same checks.
Peaker_v_p_setter(self, value) ==
    IF ~IsNdarray(value) THEN Raised(self)
    ELSE IF ndarray_len(value) = 0 THEN Raised(self)
    ELSE IF ~DtypeOk(value) THEN Raised(self)
    ELSE IF any(less_equal(value, 0)) # "False" THEN Raised(self)
    ELSE IF Len(value.shape) # 1 THEN Raised(self)
    ELSE Returned([self EXCEPT !.v_p = value.a])

Peaker_f_p_setter(self, value) ==
    IF ~IsNdarray(value) THEN Raised(self)
    ELSE IF ndarray_len(value) = 0 THEN Raised(self)
    ELSE IF ~DtypeOk(value) THEN Raised(self)
    ELSE IF any(less_equal(value, 0)) # "False" THEN Raised(self)
    ELSE IF Len(value.shape) # 1 THEN Raised(self)
    ELSE Returned([self EXCEPT !.f_p = value.a])

v_step_low_freq_setter(self, value) ==
    IF ~IsNumber(value) THEN Raised(self)
    ELSE IF value.v <= 0 THEN Raised(self)
    ELSE Returned([self EXCEPT !.v_step_low_freq = value.v])

v_step_high_freq_setter(self, value) ==
    IF ~IsNumber(value) THEN Raised(self)
    ELSE IF value.v <= 0 THEN Raised(self)
    ELSE Returned([self EXCEPT !.v_step_high_freq = value.v])

\* scipy.interpolate.interp1d(x, y), linear: it keeps its own copy of the two
\* arrays, which must be equally long.  The model passes it increasing x only.
interp1d(x, y) == [ok |-> Len(x) = Len(y), x |-> x, y |-> y]

\* The interpolator at one point inside [x[1], x[Len(x)]]: on the segment that
\* ends at the first x[hi] >= x_new.  The division is exact for the curves of
\* the model.
interpolate_at(f, x_new) ==
    LET hi == Max(2, CHOOSE i \in 1..Len(f.x) :
                        f.x[i] >= x_new /\ \A j \in 1..(i - 1) : f.x[j] < x_new)
        lo == hi - 1
    IN  f.y[lo] + ((f.y[hi] - f.y[lo]) * (x_new - f.x[lo])) \div (f.x[hi] - f.x[lo])

\* Calling the interpolator on an array: a value outside its range is an error.
InRange(f, x_new) == \A i \in 1..Len(x_new) : f.x[1] <= x_new[i] /\ x_new[i] <= f.x[Len(f.x)]

interpolate(f, x_new) == [i \in 1..Len(x_new) |-> interpolate_at(f, x_new[i])]

interpolation_vf(self) ==
    LET f == interp1d(self.f_p, self.v_p)
    IN  IF f.ok THEN Returned([self EXCEPT !.interpolator = [x |-> f.x, y |-> f.y]])
        ELSE Raised(self)

\* An object before __init__ has assigned anything; the attributes that
\* peak_dispersuon_curve creates are empty until its first call.
NewPeaker ==
    [ v_p |-> <<>>, f_p |-> <<>>, v_step_high_freq |-> 0, v_step_low_freq |-> 0,
      interpolator |-> [x |-> <<>>, y |-> <<>>],
      f_p_interp |-> <<>>, v_p_interp |-> <<>>, v_step |-> <<>> ]

Peaker_init(v_p, f_p, v_step_low_freq, v_step_high_freq) ==
    LET r1 == Peaker_v_p_setter(NewPeaker, v_p)
        r2 == IF r1.ok THEN Peaker_f_p_setter(r1.self, f_p) ELSE r1
        r3 == IF r2.ok THEN v_step_high_freq_setter(r2.self, v_step_high_freq) ELSE r2
        r4 == IF r3.ok THEN v_step_low_freq_setter(r3.self, v_step_low_freq) ELSE r3
    IN  IF r4.ok THEN interpolation_vf(r4.self) ELSE r4

SeqMin(seq) == CHOOSE m \in {seq[i] : i \in 1..Len(seq)} : \A i \in 1..Len(seq) : m <= seq[i]

SeqMax(seq) == CHOOSE m \in {seq[i] : i \in 1..Len(seq)} : \A i \in 1..Len(seq) : m >= seq[i]

\* Mutant: the bound is left where it falls.
clip_not(value, a_min, a_max) == value

\* np.clip
clip(value, a_min, a_max) == Min(Max(value, a_min), a_max)

\* Mutant: the last index of the least distance.
argmin_abs_last(velocities, bound) ==
    CHOOSE i \in 1..Len(velocities) :
        /\ \A j \in 1..Len(velocities) : Abs(velocities[i] - bound) <= Abs(velocities[j] - bound)
        /\ \A j \in (i + 1)..Len(velocities) : Abs(velocities[j] - bound) > Abs(velocities[i] - bound)

\* np.argmin(np.abs(velocities - bound)): the first index of the least distance.
argmin_abs(velocities, bound) ==
    CHOOSE i \in 1..Len(velocities) :
        /\ \A j \in 1..Len(velocities) : Abs(velocities[i] - bound) <= Abs(velocities[j] - bound)
        /\ \A j \in 1..(i - 1) : Abs(velocities[j] - bound) > Abs(velocities[i] - bound)

\* Mutant: an empty range of rows gives its lower row instead of an error.
argmax_rows_lenient(energy_vf, lower, upper, col) ==
    IF lower >= upper THEN [ok |-> TRUE, row |-> lower]
    ELSE [ok |-> TRUE,
          row |-> CHOOSE r \in lower..(upper - 1) :
                     /\ \A q \in lower..(upper - 1) : energy_vf[q][col] <= energy_vf[r][col]
                     /\ \A q \in lower..(r - 1) : energy_vf[q][col] < energy_vf[r][col]]

\* np.argmax(vf[lower:upper, col]) + lower, rows counted from 1 (lower included,
\* upper not): the first row of the greatest value; numpy refuses an empty range.
argmax_rows(energy_vf, lower, upper, col) ==
    IF lower >= upper THEN [ok |-> FALSE, row |-> 0]
    ELSE [ok |-> TRUE,
          row |-> CHOOSE r \in lower..(upper - 1) :
                     /\ \A q \in lower..(upper - 1) : energy_vf[q][col] <= energy_vf[r][col]
                     /\ \A q \in lower..(r - 1) : energy_vf[q][col] < energy_vf[r][col]]

PeakFails(self, error) ==
    [ok |-> FALSE, error |-> error, self |-> self,
     f_p_interp |-> <<>>, lower |-> <<>>, upper |-> <<>>, picked |-> <<>>]

peak_dispersuon_curve(self, energy_vf, velocities, freqs) ==
    LET f_p_interp == SelectSeq(freqs, LAMBDA f : SeqMin(self.f_p) <= f /\ f <= SeqMax(self.f_p))
        interpolator_v_step ==
            interp1d(<<self.f_p[1], self.f_p[Len(self.f_p)]>>,
                     <<self.v_step_low_freq, self.v_step_high_freq>>)
        self1 == [self EXCEPT !.f_p_interp = f_p_interp]
    IN  IF ~InRange(self.interpolator, f_p_interp) THEN PeakFails(self1, "ValueError")
        ELSE
        LET v_p_interp == interpolate(self.interpolator, f_p_interp)
            self2 == [self1 EXCEPT !.v_p_interp = v_p_interp]
        IN  IF ~InRange(interpolator_v_step, f_p_interp) THEN PeakFails(self2, "ValueError")
            ELSE
            LET v_step == interpolate(interpolator_v_step, f_p_interp)
                self3 == [self2 EXCEPT !.v_step = v_step]
                n == Len(f_p_interp)
                v_p_interp_upper ==
                    [i \in 1..n |-> clip(v_p_interp[i] + v_step[i], SeqMin(velocities),
                                         SeqMax(velocities))]
                v_p_interp_lower ==
                    [i \in 1..n |-> clip(v_p_interp[i] - v_step[i], SeqMin(velocities),
                                         SeqMax(velocities))]
                upper_indexes == [i \in 1..n |-> argmin_abs(velocities, v_p_interp_upper[i])]
                lower_indexes == [i \in 1..n |-> argmin_abs(velocities, v_p_interp_lower[i])]
            IN  IF n = 0 THEN PeakFails(self3, "IndexError")
                ELSE
                LET f_0 == CHOOSE j \in 1..Len(freqs) :
                               freqs[j] = f_p_interp[1] /\ \A q \in 1..(j - 1) : freqs[q] # f_p_interp[1]
                    ind_max == [i \in 1..n |->
                                  argmax_rows(energy_vf, lower_indexes[i], upper_indexes[i], f_0 + i - 1)]
                IN  IF \E i \in 1..n : ~ind_max[i].ok THEN PeakFails(self3, "ValueError")
                    ELSE [ok |-> TRUE, error |-> "none", self |-> self3,
                          f_p_interp |-> f_p_interp,
                          lower |-> v_p_interp_lower,
                          upper |-> v_p_interp_upper,
                          picked |-> [i \in 1..n |-> velocities[ind_max[i].row]]]

----------------------------------------------------------------------------
(* class PassiveData as a DataPreprocessor holds it: the sample matrix, the
   sampling interval and the sampling rate; class DataPreprocessor *)

\* A sampling interval: the fraction num / den of a second, in lowest terms.
Ratio(num, den) ==
    IF num = 0 THEN [num |-> 0, den |-> 1]
    ELSE LET g == Gcd(Abs(num), den) IN [num |-> num \div g, den |-> den \div g]

\* The rates y of the model for which 1 / (1 / y), evaluated in IEEE-754 double
\* precision, is below y.
RoundsBelow == { 93 }

\* int(1 / dt) for dt > 0: the quotient cut off towards zero.  For the intervals
\* of the model the double-precision quotient is on the same side of every
\* whole number as the exact one, except those of RoundsBelow.
int_reciprocal(dt) ==
    IF dt.num = 1 /\ dt.den \in RoundsBelow THEN dt.den - 1 ELSE dt.den \div dt.num

\* The matrix is given as its rows (a float64 array of two axes).
seismogram_setter(self, value) ==
    IF Len(value) = 0 THEN Raised(self)
    ELSE IF Len(value[1]) = 0 THEN Raised(self)
    ELSE Returned([self EXCEPT !.seismogram = value, !.nt = Len(value),
                               !.nx = Len(value[1])])

\* 1 / self._dt raises ZeroDivisionError after _dt has been assigned.
PassiveData_dt_setter(self, value) ==
    IF ~IsNumber(value) THEN Raised(self)
    ELSE IF value.v.num < 0 THEN Raised(self)
    ELSE IF value.v.num = 0 THEN Raised([self EXCEPT !.dt = value.v])
    ELSE Returned([self EXCEPT !.dt = value.v, !.fs = int_reciprocal(value.v)])

PassiveData_dt_getter(self) == self.dt

\* 1 / self._fs raises ZeroDivisionError after _fs has been assigned.
PassiveData_fs_setter(self, value) ==
    IF ~IsInt(value) THEN Raised(self)
    ELSE IF value.v < 0 THEN Raised(self)
    ELSE IF value.v = 0 THEN Raised([self EXCEPT !.fs = value.v])
    ELSE Returned([self EXCEPT !.fs = value.v, !.dt = Ratio(1, value.v)])

\* The rate is computed from the stored interval at every read.
PassiveData_fs_getter(self) ==
    IF self.dt.num = 0 THEN [ok |-> FALSE, value |-> 0]
    ELSE [ok |-> TRUE, value |-> int_reciprocal(self.dt)]

PassiveData_seismogram_getter(self) == self.seismogram

\* The attributes before __init__ sets them; seimsmogram is an attribute the
\* class does not define (<<>>: the object has no such attribute).
NewPassiveData ==
    [ seismogram |-> <<>>, nt |-> 0, nx |-> 0, dt |-> Ratio(0, 1), fs |-> 0,
      seimsmogram |-> <<>> ]

PassiveData_init(data, dt) ==
    LET r1 == seismogram_setter(NewPassiveData, data)
    IN  IF r1.ok THEN PassiveData_dt_setter(r1.self, dt) ELSE r1

\* scipy.signal.detrend of one trace: what is left of it after its least-squares
\* straight line is taken away (nothing of a trace of one sample).  With
\* c[i] = 2 * i - (n + 1) the line is mean + c[i] * sum(c * y) / sum(c * c); the
\* traces of the model leave whole numbers.
detrend(trace) ==
    LET n == Len(trace)
        c == [i \in 1..n |-> 2 * i - (n + 1)]
        sxx == SumSeq([i \in 1..n |-> c[i] * c[i]])
        sxy == SumSeq([i \in 1..n |-> c[i] * trace[i]])
        sy == SumSeq(trace)
    IN  IF n = 1 THEN <<0>>
        ELSE [i \in 1..n |-> (n * sxx * trace[i] - sxx * sy - n * sxy * c[i]) \div (n * sxx)]

\* DataPreprocessor.detrending on the record self: the traces are the columns.
detrending(self) ==
    LET seismogram == PassiveData_seismogram_getter(self)
        traces == [ii \in 1..self.nx |-> detrend([i \in 1..Len(seismogram) |-> seismogram[i][ii]])]
        detrended_data == [i \in 1..Len(seismogram) |-> [ii \in 1..self.nx |-> traces[ii][i]]]
    IN  [self EXCEPT !.seimsmogram = detrended_data]

----------------------------------------------------------------------------
(* The arguments the model calls the operations with *)

Floats(vals) == {[t |-> "float", v |-> x] : x \in vals}

Ints(vals) == {[t |-> "int", v |-> x] : x \in vals}

NotANumber == [t |-> "str", v |-> 0]

DtArgs == Floats({0, 1, 2}) \cup Ints({1}) \cup {NotANumber}

NtArgs == Ints({0, 1, 3}) \cup Floats({1}) \cup {NotANumber}

NtRange == Ints(0..MaxNt) \cup Floats({1})

VArgs == Floats({0, 2, 3}) \cup Ints({2}) \cup {NotANumber}

VRange == Floats(0..MaxV) \cup {NotANumber}

FArgs == Floats({QuarterHz(k) : k \in 0..3}) \cup {NotANumber}

ThetaArgs == Floats({0, 75}) \cup Ints({435}) \cup {NotANumber}

ThetaStepArgs == Floats({15}) \cup Ints({360}) \cup {NotANumber}

Ndarray(dtype, a) == [t |-> "ndarray", dtype |-> dtype, shape |-> <<Len(a)>>, a |-> a]

\* An array of two axes, rows by cols, of the entries a.
Ndarray2(dtype, rows, cols, a) ==
    [t |-> "ndarray", dtype |-> dtype, shape |-> <<rows, cols>>, a |-> a]

\* A Python list.
List(a) == [t |-> "list", dtype |-> "float64", shape |-> <<Len(a)>>, a |-> a]

VelocityArrays ==
    { Ndarray("float64", <<5, 7>>), Ndarray("int32", <<2, 0>>), Ndarray("float64", <<>>),
      Ndarray("int64", <<5>>), List(<<5>>) }

FreqArrays ==
    { Ndarray("float64", <<Hz(0), QuarterHz(2)>>), Ndarray("int32", <<-1>>),
      Ndarray("float64", <<>>) }

ThetaArrays ==
    { Ndarray("int32", <<370, 90>>), Ndarray("float64", <<>>),
      List(<<90>>) }

\* The overrides of the grids with, beside the above, arrays of two axes (one
\* column, one row) and a frequency above the Nyquist frequency of every dt.
OverrideVelocityArrays ==
    VelocityArrays
    \cup { Ndarray2("float64", 2, 1, <<5, 7>>), Ndarray2("float64", 1, 2, <<5, 7>>),
           Ndarray2("float64", 2, 1, <<0, 7>>) }

OverrideFreqArrays ==
    FreqArrays
    \cup { Ndarray("float64", <<QuarterHz(1), QuarterHz(3)>>),
           Ndarray2("float64", 2, 1, <<Hz(0), QuarterHz(1)>>),
           Ndarray2("float64", 1, 2, <<Hz(0), QuarterHz(1)>>) }

OverrideThetaArrays ==
    ThetaArrays
    \cup { Ndarray2("float64", 1, 2, <<10, 20>>), Ndarray2("int32", 2, 1, <<370, 90>>) }

Axes == {"v", "f", "theta"}

\* The guide curves, half-widths and grids given to the Peaker.
GuideVelocityArrays ==
    { Ndarray("float64", <<110, 110>>), Ndarray("float64", <<100, 120>>),
      Ndarray("float64", <<>>), Ndarray("int32", <<0, 110>>) }

GuideFrequencyArrays ==
    { Ndarray("float64", <<1, 3>>), Ndarray("int64", <<1, 3>>),
      List(<<1, 3>>) }

LowHalfWidthArgs == Floats({5, 15}) \cup Ints({0}) \cup {NotANumber}

HighHalfWidthArgs == Floats({15}) \cup Ints({0}) \cup {NotANumber}

PeakVelocities == { <<100, 110, 120, 130>>, <<100, 150>>, <<120, 100>> }

PeakFreqs == { <<2>>, <<1, 2, 3>>, <<5, 6>>, <<2, 9, 3>> }

\* An energy slice of one row per velocity and one column per frequency: the
\* column 1, 9, 3, 2 moved down by one row per column, or values rising with the row.
EnergySlices(velocities, freqs) ==
    { [r \in 1..Len(velocities) |-> [c \in 1..Len(freqs) |->
          <<1, 9, 3, 2>>[((r - c) % 4) + 1]]],
      [r \in 1..Len(velocities) |-> [c \in 1..Len(freqs) |-> r + c]] }

\* The sampling intervals and rates assigned to a record, and its sample matrices:
\* traces that are straight lines and traces that are not.
NotAnInterval == [t |-> "str", v |-> Ratio(0, 1)]

IntervalArgs ==
    { [t |-> "float", v |-> Ratio(x[1], x[2])] :
        x \in { <<0, 1>>, <<1, 4>>, <<3, 10>>, <<3, 5>>, <<1, 1>>, <<3, 2>>, <<3, 1>>, <<-1, 1>> } }
    \cup { [t |-> "int", v |-> Ratio(1, 1)], NotAnInterval }

RateArgs == Ints({-1, 0, 1, 4, 93}) \cup Floats({4}) \cup {NotANumber}

RecordMatrices ==
    { <<<<11>>>>, <<<<11, 12>>, <<21, 22>>, <<31, 32>>>>, <<<<0, 6>>, <<0, 0>>, <<6, 0>>>> }

NoPeak == [called |-> FALSE, energy_vf |-> <<>>, velocities |-> <<>>,
           freqs |-> <<>>, ok |-> FALSE, error |-> "none",
           f_p_interp |-> <<>>, lower |-> <<>>, upper |-> <<>>, picked |-> <<>>]

NoCall == [called |-> FALSE, data |-> PassiveData(1, 1), recievers |-> Receivers(1),
           nt |-> 1, error |-> "none", windows |-> <<>>]

----------------------------------------------------------------------------
(* The state machine *)

\* A PMASW object as a successful construction with the given arguments leaves it.
Constructed(dts, nts, v_maxs, f_maxs) ==
    /\ \E dt \in dts, nt \in nts, v_max \in v_maxs, f_max \in f_maxs :
         LET r == PMASW_init(dt, nt, v_max, f_max)
         IN  r.ok /\ pmasw = r.self
    /\ lastOp = "__init__"
    /\ manualGrid = [a \in Axes |-> <<>>]
    /\ ceCall = NoCall

\* A record of one sample a second, nothing is done with.
OneRecord == record = PassiveData_init(<<<<11>>>>, [t |-> "float", v |-> Ratio(1, 1)]).self

\* No Peaker has been constructed.
NoPeaker == peaker = NewPeaker /\ peakCall = NoPeak

Init == Constructed(DtArgs, NtArgs, VArgs, FArgs) /\ NoPeaker /\ OneRecord

\* A call of a bound setter of the given axis with outcome r.
BoundCall(name, axis, r) ==
    /\ pmasw' = r.self
    /\ lastOp' = IF r.ok THEN name ELSE lastOp
    /\ manualGrid' = IF r.ok THEN [manualGrid EXCEPT ![axis] = <<>>] ELSE manualGrid
    /\ UNCHANGED <<ceCall, peaker, peakCall, record>>

\* A direct assignment of value to the grid of the given axis with outcome r.
OverrideCall(name, axis, value, r) ==
    /\ pmasw' = r.self
    /\ lastOp' = IF r.ok THEN name ELSE lastOp
    /\ manualGrid' = IF r.ok THEN [manualGrid EXCEPT ![axis] = value.a] ELSE manualGrid
    /\ UNCHANGED <<ceCall, peaker, peakCall, record>>

Set_dt == \E value \in DtArgs : BoundCall("dt", "f", dt_setter(pmasw, value))

Set_nt(args) == \E value \in args : BoundCall("nt", "f", nt_setter(pmasw, value))

Set_v_min(args) == \E value \in args : BoundCall("v_min", "v", v_min_setter(pmasw, value))

Set_v_max(args) == \E value \in args : BoundCall("v_max", "v", v_max_setter(pmasw, value))

Set_v_step(args) == \E value \in args : BoundCall("v_step", "v", v_step_setter(pmasw, value))

Set_f_min == \E value \in FArgs : BoundCall("f_min", "f", f_min_setter(pmasw, value))

Set_f_max == \E value \in FArgs : BoundCall("f_max", "f", f_max_setter(pmasw, value))

Set_theta_min ==
    \E value \in ThetaArgs : BoundCall("theta_min", "theta", theta_min_setter(pmasw, value))

Set_theta_max ==
    \E value \in ThetaArgs : BoundCall("theta_max", "theta", theta_max_setter(pmasw, value))

Set_theta_step ==
    \E value \in ThetaStepArgs :
        BoundCall("theta_step", "theta", theta_step_setter(pmasw, value))

Set_velocities(args) ==
    \E value \in args : OverrideCall("velocities", "v", value, velocities_setter(pmasw, value))

Set_freqs(args) ==
    \E value \in args : OverrideCall("freqs", "f", value, freqs_setter(pmasw, value))

Set_thetas(args) ==
    \E value \in args : OverrideCall("thetas", "theta", value, thetas_setter(pmasw, value))

\* compute_energy on a record of rows samples by cols channels with n receivers,
\* for <<rows, cols, n>> in calls.
ComputeEnergyOn(calls) ==
    \E call \in calls :
      \E fails_at \in 0..(call[1] \div pmasw.nt) :
        LET data == PassiveData(call[1], call[2])
            recievers == Receivers(call[3])
            r == compute_energy(pmasw, data, recievers, fails_at)
        IN  /\ pmasw' = r.self
            /\ lastOp' = IF r.ok THEN "compute_energy" ELSE lastOp
            /\ ceCall' = [called |-> TRUE, data |-> data, recievers |-> recievers,
                          nt |-> pmasw.nt, error |-> r.error, windows |-> r.windows]
            /\ UNCHANGED <<manualGrid, peaker, peakCall, record>>

\* Records of every size up to MaxRows by MaxCols, with as many receivers as the
\* record has time samples or as it has channels.
EnergyCalls ==
    {call \in (1..MaxRows) \X (1..MaxCols) \X (1..MaxRows) : call[3] \in {call[1], call[2]}}

ComputeEnergy == ComputeEnergyOn(EnergyCalls)

\* A read of the property vf, ftheta.
Vf ==
    LET r == vf(pmasw)
    IN  /\ pmasw' = r.self
        /\ lastOp' = IF r.ok THEN "vf" ELSE lastOp
        /\ UNCHANGED <<manualGrid, ceCall, peaker, peakCall, record>>

Ftheta ==
    LET r == ftheta(pmasw)
    IN  /\ pmasw' = r.self
        /\ lastOp' = IF r.ok THEN "ftheta" ELSE lastOp
        /\ UNCHANGED <<manualGrid, ceCall, peaker, peakCall, record>>

\* A call of a Peaker setter with outcome r.
PeakerCall(name, r) ==
    /\ peaker' = r.self
    /\ lastOp' = IF r.ok THEN name ELSE lastOp
    /\ UNCHANGED <<pmasw, manualGrid, ceCall, peakCall, record>>

Set_v_p == \E value \in GuideVelocityArrays : PeakerCall("v_p", Peaker_v_p_setter(peaker, value))

Set_f_p == \E value \in GuideFrequencyArrays : PeakerCall("f_p", Peaker_f_p_setter(peaker, value))

Set_v_step_low_freq ==
    \E value \in LowHalfWidthArgs :
        PeakerCall("v_step_low_freq", v_step_low_freq_setter(peaker, value))

Set_v_step_high_freq ==
    \E value \in HighHalfWidthArgs :
        PeakerCall("v_step_high_freq", v_step_high_freq_setter(peaker, value))

PeakDispersionCurve ==
    \E velocities \in PeakVelocities, freqs \in PeakFreqs :
      \E energy_vf \in EnergySlices(velocities, freqs) :
        LET r == peak_dispersuon_curve(peaker, energy_vf, velocities, freqs)
        IN  /\ peaker' = r.self
            /\ lastOp' = IF r.ok THEN "peak_dispersuon_curve" ELSE lastOp
            /\ peakCall' = [called |-> TRUE, energy_vf |-> energy_vf,
                            velocities |-> velocities, freqs |-> freqs,
                            ok |-> r.ok, error |-> r.error, f_p_interp |-> r.f_p_interp,
                            lower |-> r.lower, upper |-> r.upper, picked |-> r.picked]
            /\ UNCHANGED <<pmasw, manualGrid, ceCall, record>>

\* A call on the record with outcome r.
RecordCall(name, r) ==
    /\ record' = r.self
    /\ lastOp' = IF r.ok THEN name ELSE lastOp
    /\ UNCHANGED <<pmasw, manualGrid, ceCall, peaker, peakCall>>

SetRecord_dt ==
    \E value \in IntervalArgs : RecordCall("PassiveData.dt", PassiveData_dt_setter(record, value))

SetRecord_fs ==
    \E value \in RateArgs : RecordCall("PassiveData.fs", PassiveData_fs_setter(record, value))

Detrending == RecordCall("detrending", Returned(detrending(record)))

\* The grid engine: every bound setter and every manual override.
Next ==
    \/ Set_dt \/ Set_nt(NtArgs)
    \/ Set_v_min(VArgs) \/ Set_v_max(VArgs) \/ Set_v_step(VArgs)
    \/ Set_f_min \/ Set_f_max
    \/ Set_theta_min \/ Set_theta_max \/ Set_theta_step
    \/ Set_velocities(VelocityArrays) \/ Set_freqs(FreqArrays) \/ Set_thetas(ThetaArrays)

Spec == Init /\ [][Next]_vars

\* The velocity axis alone, over every velocity bound up to MaxV.
InitVel == Constructed(Floats({1}), Ints({1}), VRange, Floats({QuarterHz(2)})) /\ NoPeaker /\ OneRecord

NextVel ==
    \/ Set_v_min(VRange) \/ Set_v_max(VRange) \/ Set_v_step(VRange)
    \/ Set_velocities(VelocityArrays)

SpecVel == InitVel /\ [][NextVel]_vars

\* The manual overrides, beside the setters that regenerate the grids and the one
\* that moves the Nyquist frequency.
InitOverride == Constructed(DtArgs, Ints({1}), Floats({2, 3}), FArgs) /\ NoPeaker /\ OneRecord

NextOverride ==
    \/ Set_velocities(OverrideVelocityArrays)
    \/ Set_freqs(OverrideFreqArrays)
    \/ Set_thetas(OverrideThetaArrays)
    \/ Set_dt \/ Set_v_step(VArgs) \/ Set_f_min

SpecOverride == InitOverride /\ [][NextOverride]_vars

\* A Seismic Record and its preprocessor, beside an engine nothing is done with.
InitRecord ==
    /\ Constructed(Floats({1}), Ints({1}), Floats({MaxV}), Floats({QuarterHz(2)}))
    /\ peaker = NewPeaker /\ peakCall = NoPeak
    /\ \E data \in RecordMatrices, dt \in IntervalArgs :
         LET r == PassiveData_init(data, dt)
         IN  r.ok /\ record = r.self

NextRecord == SetRecord_dt \/ SetRecord_fs \/ Detrending

SpecRecord == InitRecord /\ [][NextRecord]_vars

\* An engine with a manual grid of two azimuths instead of the default eighteen.
TwoAzimuths == Ndarray("float64", <<0, 90>>)

ConstructedTwoAzimuths(nts) ==
    /\ \E nt \in nts :
         LET r == PMASW_init([t |-> "float", v |-> 1], nt, [t |-> "float", v |-> MaxV],
                             [t |-> "float", v |-> QuarterHz(2)])
         IN  r.ok /\ pmasw = thetas_setter(r.self, TwoAzimuths).self
    /\ lastOp = "thetas"
    /\ manualGrid = [a \in Axes |-> IF a = "theta" THEN TwoAzimuths.a ELSE <<>>]
    /\ ceCall = NoCall

\* Energy computation on an engine whose window length varies.
InitEnergy == ConstructedTwoAzimuths(NtRange) /\ NoPeaker /\ OneRecord

NextEnergy == ComputeEnergy \/ Set_nt(NtRange)

SpecEnergy == InitEnergy /\ [][NextEnergy]_vars

\* The energy volume and its reductions: records with as many receivers as time
\* samples (the calls compute_energy accepts) and one record it rejects.
WindowArgs == Ints({1, 2})

VolumeCalls ==
    {<<rows, MaxCols, rows>> : rows \in {1, MaxRows - 1, MaxRows}} \cup {<<1, MaxCols, 2>>}

InitVolume == ConstructedTwoAzimuths(WindowArgs) /\ NoPeaker /\ OneRecord

NextVolume == ComputeEnergyOn(VolumeCalls) \/ Vf \/ Ftheta \/ Set_nt(WindowArgs)

SpecVolume == InitVolume /\ [][NextVolume]_vars

\* The Peaker: every guide and half-width it can be constructed from, beside an
\* engine nothing is done with.
InitPeak ==
    /\ Constructed(Floats({1}), Ints({1}), Floats({MaxV}), Floats({QuarterHz(2)}))
    /\ \E v_p \in GuideVelocityArrays, f_p \in GuideFrequencyArrays :
         \E v_step_low_freq \in LowHalfWidthArgs, v_step_high_freq \in HighHalfWidthArgs :
           LET r == Peaker_init(v_p, f_p, v_step_low_freq, v_step_high_freq)
           IN  r.ok /\ peaker = r.self
    /\ peakCall = NoPeak
    /\ OneRecord

NextPeak ==
    \/ PeakDispersionCurve
    \/ Set_v_p \/ Set_f_p \/ Set_v_step_low_freq \/ Set_v_step_high_freq

SpecPeak == InitPeak /\ [][NextPeak]_vars

----------------------------------------------------------------------------
(* What the claims speak about *)

Bounds(self) ==
    <<self.dt, self.nt, self.v_min, self.v_max, self.v_step, self.f_min, self.f_max,
      self.theta_min, self.theta_max, self.theta_step>>

Grids(self) == <<self.velocities, self.freqs, self.thetas>>

\* The outcomes of every call of a bound setter of an axis in the current state.
VelocityBoundCalls ==
    {v_min_setter(pmasw, value) : value \in VArgs}
    \cup {v_max_setter(pmasw, value) : value \in VArgs}
    \cup {v_step_setter(pmasw, value) : value \in VArgs}

FrequencyBoundCalls ==
    {dt_setter(pmasw, value) : value \in DtArgs}
    \cup {nt_setter(pmasw, value) : value \in NtArgs}
    \cup {f_min_setter(pmasw, value) : value \in FArgs}
    \cup {f_max_setter(pmasw, value) : value \in FArgs}

AzimuthBoundCalls ==
    {theta_min_setter(pmasw, value) : value \in ThetaArgs}
    \cup {theta_max_setter(pmasw, value) : value \in ThetaArgs}
    \cup {theta_step_setter(pmasw, value) : value \in ThetaStepArgs}

BoundCalls == VelocityBoundCalls \cup FrequencyBoundCalls \cup AzimuthBoundCalls

Nyquist(self) == (Hz(1) \div 2) \div self.dt

----------------------------------------------------------------------------
(* C1: a bound setter that raises leaves every stored bound and every grid as
   it was before the call, also when the failure arises while the grid is
   regenerated: in every reachable state, for every setter and argument. *)
C1_FailedSetterLeavesStateUntouched ==
    \A r \in BoundCalls :
        ~r.ok => (Bounds(r.self) = Bounds(pmasw) /\ Grids(r.self) = Grids(pmasw))

(* C2: in every reachable state the stored maximum frequency does not exceed
   the Nyquist frequency 1/(2*dt) of the stored sampling interval. *)
C2_FMaxWithinNyquist == 2 * pmasw.dt * pmasw.f_max <= Hz(1)

(* C3: a successful bound setter changes only the grid of its own axis: in
   every reachable state, also with manually overridden grids, every
   successful call of a velocity setter leaves the frequency and azimuth
   grids as they are, of the dt, nt, f_min and f_max setters the velocity and
   azimuth grids, and of the azimuth setters the velocity and frequency grids. *)
C3_SetterChangesOwnGridOnly ==
    /\ \A r \in VelocityBoundCalls :
          r.ok => (r.self.freqs = pmasw.freqs /\ r.self.thetas = pmasw.thetas)
    /\ \A r \in FrequencyBoundCalls :
          r.ok => (r.self.velocities = pmasw.velocities /\ r.self.thetas = pmasw.thetas)
    /\ \A r \in AzimuthBoundCalls :
          r.ok => (r.self.velocities = pmasw.velocities /\ r.self.freqs = pmasw.freqs)

\* A velocity step has just been set while the other two grids are manual overrides.
C3_Witness ==
    /\ lastOp = "v_step"
    /\ manualGrid["f"] # <<>> /\ pmasw.freqs = manualGrid["f"]
    /\ manualGrid["theta"] # <<>>
    /\ pmasw.velocities # <<>>

(* C4: in every reachable state v_min < v_max, v_step > 0, f_min < f_max and
   theta_min <= theta_max, the angles being the normalized ones. *)
C4_BoundsOrdered ==
    /\ pmasw.v_min < pmasw.v_max
    /\ pmasw.v_step > 0
    /\ pmasw.f_min < pmasw.f_max
    /\ pmasw.theta_min <= pmasw.theta_max
    /\ theta_min_getter(pmasw) <= theta_max_getter(pmasw)

\* Every lower bound has been moved off its default and the upper azimuth bound set last.
C4_Witness ==
    /\ lastOp = "theta_max"
    /\ pmasw.v_min > DefaultVMin
    /\ pmasw.f_min > 0
    /\ pmasw.theta_min > 0
    /\ pmasw.theta_min = pmasw.theta_max

(* C5, as stated: while a manual override is in force (no bound of its axis
   has been set successfully since), the getter of that axis returns the
   overridden values themselves; and every successful bound setter leaves the
   grid of its axis generated from the bounds it leaves. *)
RegeneratedByEverySetter ==
    /\ \A r \in VelocityBoundCalls :
          r.ok => r.self.velocities =
                    Arange(r.self.v_min, r.self.v_max + r.self.v_step, r.self.v_step)
    /\ \A r \in FrequencyBoundCalls :
          r.ok => r.self.freqs = Arange(r.self.f_min, r.self.f_max + r.self.df, r.self.df)
                  /\ r.self.df * r.self.dt * r.self.nt = Hz(1)
    /\ \A r \in AzimuthBoundCalls :
          r.ok => r.self.thetas =
                    ArangeOfLen(r.self.theta_min, r.self.theta_step,
                        ArangeLenRad(r.self.theta_min, r.self.theta_max, r.self.theta_step))

C5_OverrideReturnedVerbatim ==
    /\ manualGrid["v"] # <<>> => velocities_getter(pmasw) = manualGrid["v"]
    /\ manualGrid["f"] # <<>> => freqs_getter(pmasw) = manualGrid["f"]
    /\ manualGrid["theta"] # <<>> => thetas_getter(pmasw) = manualGrid["theta"]
    /\ RegeneratedByEverySetter

(* C5, amended: as above, except that the azimuth getter returns the
   overridden angles reduced modulo 360. *)
C5_OverrideReturnedModulo360 ==
    /\ manualGrid["v"] # <<>> => velocities_getter(pmasw) = manualGrid["v"]
    /\ manualGrid["f"] # <<>> => freqs_getter(pmasw) = manualGrid["f"]
    /\ manualGrid["theta"] # <<>> =>
          thetas_getter(pmasw) =
              [i \in 1..Len(manualGrid["theta"]) |-> manualGrid["theta"][i] % 360]
    /\ RegeneratedByEverySetter

\* All three grids are overrides in force, the azimuths with an angle beyond 360 degrees.
C5_Witness ==
    /\ manualGrid["v"] # <<>>
    /\ manualGrid["f"] # <<>>
    /\ manualGrid["theta"] # <<>>
    /\ \E i \in 1..Len(manualGrid["theta"]) : manualGrid["theta"][i] >= 360
    /\ lastOp = "thetas"

(* C6: for valid (f_min, f_max, dt, nt) the generated frequency grid has
   spacing 1/(dt*nt) and no entry above the Nyquist frequency 1/(2*dt). *)
C6_FreqGridSpacingAndNyquist ==
    (manualGrid["f"] = <<>> /\ pmasw.f_max <= Nyquist(pmasw)) =>
        LET g == freqs_getter(pmasw)
        IN  /\ \A i \in 1..(Len(g) - 1) : (g[i + 1] - g[i]) * pmasw.dt * pmasw.nt = Hz(1)
            /\ \A i \in 1..Len(g) : g[i] <= Nyquist(pmasw)

(* C7: the generated velocity grid is strictly increasing, starts at v_min,
   ends at or above v_max, and consecutive entries differ by v_step. *)
C7_VelocityGrid ==
    manualGrid["v"] = <<>> =>
        LET g == velocities_getter(pmasw)
        IN  /\ Len(g) >= 1
            /\ g[1] = pmasw.v_min
            /\ g[Len(g)] >= pmasw.v_max
            /\ \A i \in 1..(Len(g) - 1) : g[i] < g[i + 1] /\ g[i + 1] - g[i] = pmasw.v_step

\* A grid of at least three velocities, generated by a setter, whose range is no
\* whole number of steps.
C7_Witness ==
    /\ manualGrid["v"] = <<>>
    /\ lastOp \in {"v_min", "v_max", "v_step"}
    /\ Len(pmasw.velocities) >= 3
    /\ pmasw.velocities[Len(pmasw.velocities)] > pmasw.v_max

(* C8: the generated azimuth grid is theta_min, theta_min + theta_step, ...,
   every such value strictly below theta_max and never theta_max itself, each
   exposed entry in [0, 360); for 0, 180, 10 it is the 18 entries 0..170. *)
C8_AzimuthGridExcludesThetaMax ==
    (manualGrid["theta"] = <<>> /\ pmasw.theta_step # 0) =>
        LET g == thetas_getter(pmasw)
            lo == theta_min_getter(pmasw)
            hi == theta_max_getter(pmasw)
            step == theta_step_getter(pmasw)
        IN  /\ Len(g) = CeilDiv(hi - lo, step)
            /\ \A i \in 1..Len(g) : g[i] = lo + (i - 1) * step /\ g[i] < hi
            /\ \A i \in 1..Len(g) : 0 <= g[i] /\ g[i] < 360
            /\ (lo = 0 /\ hi = 180 /\ step = 10) =>
                   g = [i \in 1..18 |-> 10 * (i - 1)]

(* C9: compute_energy raises the shape-mismatch error exactly when the number
   of receiver coordinates differs from the number of channels (columns) of
   the record, whatever the number of time samples. *)
C9_MismatchIffChannelsDiffer ==
    ceCall.called =>
        ((ceCall.error = "ValueError") <=> (Len(ceCall.recievers.x) # ceCall.data.nx))

(* C10: a successful compute_energy on a record of k*nt + r samples, r < nt,
   invokes the kernel exactly k times, the i-th time on rows [i*nt, (i+1)*nt),
   and passes the trailing r samples to no invocation. *)
C10_WholeWindowsOnly ==
    (ceCall.called /\ ceCall.error = "none") =>
        LET m == ceCall.data.seismogram
            nt == ceCall.nt
            k == Len(m) \div nt
            w == ceCall.windows
        IN  /\ Len(w) = k
            /\ \A i \in 1..k : w[i] = [j \in 1..nt |-> m[(i - 1) * nt + j]]
            /\ \A row \in (k * nt + 1)..Len(m) :
                  \A i \in 1..Len(w) : \A j \in 1..Len(w[i]) : w[i][j] # m[row]

\* A successful call on a record of at least two whole windows and a remainder.
C10_Witness ==
    /\ ceCall.called /\ ceCall.error = "none"
    /\ lastOp = "compute_energy"
    /\ Len(ceCall.windows) >= 2
    /\ Len(ceCall.data.seismogram) % ceCall.nt # 0

\* compute_energy has just returned normally: the engine is as that call left it.
JustComputed == lastOp = "compute_energy" /\ ceCall.called /\ ceCall.error = "none"

\* The kernel output for the i-th whole window of the last call's record.
KernelOutput(i) ==
    LET m == ceCall.data.seismogram
        nt == ceCall.nt
    IN  compute_energy_([j \in 1..nt |-> m[(i - 1) * nt + j]], pmasw.freqs, pmasw.velocities,
                        pmasw.thetas, ceCall.recievers.x, ceCall.recievers.y)

(* C11: after a successful compute_energy every entry of the energy volume is
   the sum, over the whole windows of the record, of the absolute value of
   the kernel's output entry for that window; a record shorter than one
   window gives an all-zero volume. *)
C11_VolumeIsSumOfMagnitudes ==
    JustComputed =>
        LET k == Len(ceCall.data.seismogram) \div ceCall.nt
            E == pmasw.energy.a
        IN  /\ \A v \in 1..Len(pmasw.velocities), f \in 1..Len(pmasw.freqs),
                   a \in 1..Len(pmasw.thetas) :
                  E[v][f][a] = SumSeq([i \in 1..k |-> Abs(KernelOutput(i)[v][f][a])])
            /\ k = 0 =>
                  \A v \in 1..Len(pmasw.velocities), f \in 1..Len(pmasw.freqs),
                     a \in 1..Len(pmasw.thetas) : E[v][f][a] = 0

\* A volume summed over at least two windows, one of them with a negative kernel output.
C11_Witness ==
    /\ JustComputed
    /\ Len(ceCall.windows) >= 2
    /\ KernelOutput(2)[1][1][1] < 0
    /\ pmasw.energy.a[1][1][1] > 0

(* C12: calling compute_energy again with the same record and receivers on
   the engine as the first call left it gives the same energy volume as the
   first call, not that volume plus new energy. *)
C12_SecondCallSameVolume ==
    JustComputed =>
        LET again == compute_energy(pmasw, ceCall.data, ceCall.recievers, 0)
        IN  again.ok /\ again.self.energy = pmasw.energy

\* The first call left a volume that is not all zero, from exactly one window.
C12_Witness ==
    /\ JustComputed
    /\ Len(ceCall.windows) = 1
    /\ pmasw.energy.a[1][1][1] # 0

C14_ReductionsFailBeforeCompute ==
    pmasw.energy = EmptyArray =>
        /\ ~vf(pmasw).ok /\ vf(pmasw).error = "ValueError"
        /\ ~ftheta(pmasw).ok /\ ftheta(pmasw).error = "ValueError"

(* C15: for a computed energy volume E, reading ftheta returns the array R
   with R[f, a] = sum over the velocity indices v of E[v, f, a]. *)
C15_FthetaReturnsSumOverVelocities ==
    Len(pmasw.energy.shape) = 3 =>
        LET r == ftheta(pmasw)
            E == pmasw.energy.a
        IN  /\ r.ok /\ r.returns = "ndarray"
            /\ r.value.shape = <<Len(pmasw.energy.a[1]), Len(pmasw.energy.a[1][1])>>
            /\ \A f \in 1..r.value.shape[1], a \in 1..r.value.shape[2] :
                  r.value.a[f][a] = SumSeq([v \in 1..Len(E) |-> E[v][f][a]])

(* C16: for a computed energy volume E, reading vf returns the array with
   vf[v, f] = sum over the azimuth indices a of E[v, f, a]. *)
C16_VfIsSumOverAzimuths ==
    Len(pmasw.energy.shape) = 3 =>
        LET r == vf(pmasw)
            E == pmasw.energy.a
        IN  /\ r.ok /\ r.returns = "ndarray"
            /\ r.value.shape = <<pmasw.energy.shape[1], pmasw.energy.shape[2]>>
            /\ \A v \in 1..pmasw.energy.shape[1], f \in 1..pmasw.energy.shape[2] :
                  r.value.a[v][f] = SumSeq([a \in 1..pmasw.energy.shape[3] |-> E[v][f][a]])
            /\ lastOp = "vf" => pmasw.en_vel_freq = r.value

\* vf has just been read on a volume whose two reductions differ.
C16_Witness ==
    /\ lastOp = "vf"
    /\ Len(pmasw.energy.shape) = 3
    /\ pmasw.en_vel_freq.a[1][2] > 0
    /\ pmasw.en_vel_freq.a # sum_axis0(pmasw.energy).a

----------------------------------------------------------------------------
(* What the claims about the Peaker speak about *)

\* Every call of peak_dispersuon_curve on the Peaker as it is, with its outcome.
PeakCalls ==
    UNION { { [velocities |-> velocities, freqs |-> freqs, energy_vf |-> energy_vf,
               r |-> peak_dispersuon_curve(peaker, energy_vf, velocities, freqs)] :
               energy_vf \in EnergySlices(velocities, freqs) } :
            <<velocities, freqs>> \in PeakVelocities \X PeakFreqs }

\* The places in freqs, in order, of the frequencies inside the range of the
\* reference frequencies.
RestrictedPlaces(freqs) ==
    SelectSeq([j \in 1..Len(freqs) |-> j],
              LAMBDA j : SeqMin(peaker.f_p) <= freqs[j] /\ freqs[j] <= SeqMax(peaker.f_p))

\* The guide curve the Peaker was constructed from, read at frequency f.
GuideVelocity(f) ==
    LET x == peaker.interpolator.x
        y == peaker.interpolator.y
        k == CHOOSE k \in 1..(Len(x) - 1) : x[k] <= f /\ f <= x[k + 1]
    IN  y[k] + ((y[k + 1] - y[k]) * (f - x[k])) \div (x[k + 1] - x[k])

\* The search half-width at frequency f, between the first and the last
\* reference frequency.
HalfWidth(f) ==
    LET f_lo == peaker.f_p[1]
        f_hi == peaker.f_p[Len(peaker.f_p)]
    IN  peaker.v_step_low_freq
        + ((peaker.v_step_high_freq - peaker.v_step_low_freq) * (f - f_lo)) \div (f_hi - f_lo)

Clipped(value, velocities) ==
    IF value < SeqMin(velocities) THEN SeqMin(velocities)
    ELSE IF value > SeqMax(velocities) THEN SeqMax(velocities)
    ELSE value

\* The lowest index of a velocity nearest to bound.
Nearest(velocities, bound) ==
    CHOOSE i \in 1..Len(velocities) :
        /\ \A j \in 1..Len(velocities) : Abs(velocities[i] - bound) <= Abs(velocities[j] - bound)
        /\ \A j \in 1..(i - 1) : Abs(velocities[j] - bound) # Abs(velocities[i] - bound)

(* C17: a call whose frequency grid has no entry inside the range of the
   reference frequencies returns four empty sequences and raises nothing. *)
C17_EmptyRestrictionReturnsEmpty ==
    \A c \in PeakCalls :
        RestrictedPlaces(c.freqs) = <<>> =>
            /\ c.r.ok
            /\ c.r.f_p_interp = <<>> /\ c.r.lower = <<>>
            /\ c.r.upper = <<>> /\ c.r.picked = <<>>

(* C18: for every restricted frequency of a call that returns, the picked
   velocity is the velocity at a row of greatest value, among the rows
   lo <= row < hi of the energy column of that frequency, lo and hi being the
   lowest indices of the velocities nearest to the returned lower and upper
   bound; velocities 100, 110, 120, 130 with column 1, 9, 3, 2, guide
   velocity 110 and half-width 15 give bounds 100 and 125 and pick 110. *)
C18_PickedIsColumnMaximum ==
    /\ \A c \in PeakCalls :
          c.r.ok =>
              \A i \in 1..Len(c.r.f_p_interp) :
                  LET col == RestrictedPlaces(c.freqs)[i]
                      lo == Nearest(c.velocities, c.r.lower[i])
                      hi == Nearest(c.velocities, c.r.upper[i])
                  IN  \E row \in lo..(hi - 1) :
                          /\ \A q \in lo..(hi - 1) : c.energy_vf[q][col] <= c.energy_vf[row][col]
                          /\ c.r.picked[i] = c.velocities[row]
    /\ (GuideVelocity(2) = 110 /\ HalfWidth(2) = 15) =>
          LET r == peak_dispersuon_curve(peaker, <<<<1>>, <<9>>, <<3>>, <<2>>>>,
                                         <<100, 110, 120, 130>>, <<2>>)
          IN  r.ok /\ r.lower = <<100>> /\ r.upper = <<125>> /\ r.picked = <<110>>

(* C19: a call in which, for at least one restricted frequency, the lower
   and the upper bound have the same nearest velocity index raises an error
   and returns no picked velocity. *)
C19_DegenerateWindowRaises ==
    \A c \in PeakCalls :
        LET places == RestrictedPlaces(c.freqs)
            lo(i) == Nearest(c.velocities,
                         Clipped(GuideVelocity(c.freqs[places[i]]) - HalfWidth(c.freqs[places[i]]),
                                 c.velocities))
            hi(i) == Nearest(c.velocities,
                         Clipped(GuideVelocity(c.freqs[places[i]]) + HalfWidth(c.freqs[places[i]]),
                                 c.velocities))
        IN  (\E i \in 1..Len(places) : lo(i) = hi(i)) =>
                ~c.r.ok /\ c.r.error # "none" /\ c.r.picked = <<>>

\* A call over three restricted frequencies on the grid 100, 150 has raised.
C19_Witness ==
    /\ peakCall.called /\ ~peakCall.ok
    /\ peakCall.error = "ValueError"
    /\ peakCall.velocities = <<100, 150>>
    /\ Len(peakCall.freqs) = 3
    /\ peakCall.picked = <<>>

(* C20: for every restricted frequency of a call that returns, the returned
   lower and upper bound are guide velocity - half-width and guide velocity +
   half-width clipped into [min(velocities), max(velocities)]: both lie in
   that interval and lower <= upper. *)
C20_BoundsClipped ==
    \A c \in PeakCalls :
        c.r.ok =>
            LET places == RestrictedPlaces(c.freqs)
            IN  /\ Len(c.r.lower) = Len(places) /\ Len(c.r.upper) = Len(places)
                /\ \A i \in 1..Len(places) :
                      LET f == c.freqs[places[i]]
                      IN  /\ c.r.lower[i] = Clipped(GuideVelocity(f) - HalfWidth(f), c.velocities)
                          /\ c.r.upper[i] = Clipped(GuideVelocity(f) + HalfWidth(f), c.velocities)
                          /\ SeqMin(c.velocities) <= c.r.lower[i]
                          /\ c.r.lower[i] <= c.r.upper[i]
                          /\ c.r.upper[i] <= SeqMax(c.velocities)

\* A call has returned bounds of which one was clipped and one was not, the
\* half-width differing between the restricted frequencies.
C20_Witness ==
    /\ lastOp = "peak_dispersuon_curve"
    /\ peakCall.called /\ peakCall.ok
    /\ Len(peakCall.lower) = 3
    /\ peakCall.lower[3] = SeqMin(peakCall.velocities)
    /\ peakCall.lower[3] > GuideVelocity(3) - HalfWidth(3)
    /\ peakCall.lower[1] > SeqMin(peakCall.velocities)
    /\ HalfWidth(1) # HalfWidth(3)

----------------------------------------------------------------------------
\* The numbers an array argument holds, whatever its axes.
Entries(value) == {value.a[i] : i \in 1..Len(value.a)}

(* C21: in every reachable state, a manual override that is empty, or not
   one-dimensional, or (velocities) holds a value <= 0, or (frequencies) holds
   a value < 0 or a value above the Nyquist frequency 1/(2*dt), is rejected
   and the stored grid of that axis stays as it was. *)
C21_InvalidOverrideRejected ==
    /\ \A value \in OverrideVelocityArrays :
          (ndarray_len(value) = 0 \/ Len(value.shape) # 1 \/ \E e \in Entries(value) : e <= 0) =>
              LET r == velocities_setter(pmasw, value)
              IN  ~r.ok /\ r.self.velocities = pmasw.velocities
    /\ \A value \in OverrideFreqArrays :
          (ndarray_len(value) = 0 \/ Len(value.shape) # 1
             \/ \E e \in Entries(value) : e < 0 \/ e > Nyquist(pmasw)) =>
              LET r == freqs_setter(pmasw, value)
              IN  ~r.ok /\ r.self.freqs = pmasw.freqs
    /\ \A value \in OverrideThetaArrays :
          (ndarray_len(value) = 0 \/ Len(value.shape) # 1) =>
              LET r == thetas_setter(pmasw, value)
              IN  ~r.ok /\ r.self.thetas = pmasw.thetas

----------------------------------------------------------------------------
\* round(q) of Python for q = num / den >= 0: the nearest whole number, the even
\* one of two equally near.
round(num, den) ==
    LET q == num \div den
        rest == num % den
    IN  IF 2 * rest < den THEN q
        ELSE IF 2 * rest > den THEN q + 1
        ELSE IF q % 2 = 0 THEN q ELSE q + 1

(* C22: in every reachable state of a Seismic Record, after a successful
   assignment of the sampling interval x the sampling rate read back is
   round(1/x), the nearest whole number and not the quotient cut off; and
   after a successful assignment of the whole sampling rate y the sampling
   interval read back is 1/y. *)
C22_RateIsRoundedReciprocal ==
    /\ \A x \in IntervalArgs :
          LET r == PassiveData_dt_setter(record, x)
          IN  r.ok => /\ PassiveData_fs_getter(r.self).ok
                      /\ PassiveData_fs_getter(r.self).value = round(x.v.den, x.v.num)
    /\ \A y \in RateArgs :
          LET r == PassiveData_fs_setter(record, y)
          IN  r.ok => PassiveData_dt_getter(r.self) = Ratio(1, y.v)

(* C23: in every state of a Seismic Record reached by construction and any
   dt and fs assignments, failed ones included, the stored sampling interval
   is above 0; and assigning dt = 0 or fs = 0 is rejected and leaves the stored
   interval and the stored rate as they were. *)
C23_IntervalStaysPositive ==
    /\ record.dt.num > 0
    /\ \A x \in IntervalArgs :
          (IsNumber(x) /\ x.v.num = 0) =>
              LET r == PassiveData_dt_setter(record, x)
              IN  ~r.ok /\ r.self.dt = record.dt /\ r.self.fs = record.fs
    /\ \A y \in RateArgs :
          (IsInt(y) /\ y.v = 0) =>
              LET r == PassiveData_fs_setter(record, y)
              IN  ~r.ok /\ r.self.dt = record.dt /\ r.self.fs = record.fs

\* The matrix whose traces are the detrended traces of matrix.
Detrended(matrix) ==
    [i \in 1..Len(matrix) |-> [ii \in 1..Len(matrix[1]) |->
        detrend([k \in 1..Len(matrix) |-> matrix[k][ii]])[i]]]

(* C24: in every reachable state, once DataPreprocessor.detrending() has
   completed, the sample matrix the record returns is the detrended data and
   not the matrix it held before the call. *)
C24_DetrendingReplacesSamples ==
    PassiveData_seismogram_getter(detrending(record)) = Detrended(record.seismogram)

(* C25: in every state reached from construction by bound-setter calls,
   successful or failed, and manual overrides, every axis whose grid is not a
   manual override still in force holds exactly the grid its generator makes
   of the bounds stored now: velocities of v_min, v_max, v_step; frequencies
   of f_min, f_max, dt, nt; azimuths of theta_min, theta_max, theta_step. *)
C25_GridGeneratedFromStoredBounds ==
    /\ manualGrid["v"] = <<>> => pmasw.velocities = define_velocities(pmasw).velocities
    /\ manualGrid["f"] = <<>> => pmasw.freqs = define_freqs(pmasw).freqs
    /\ manualGrid["theta"] = <<>> =>
          LET r == define_thetas(pmasw)
          IN  r.ok /\ pmasw.thetas = r.self.thetas

----------------------------------------------------------------------------
StrictlyIncreasing(seq) == \A i \in 1..(Len(seq) - 1) : seq[i] < seq[i + 1]

(* C26, as stated: for every restricted frequency of a call that returns, on a
   strictly increasing velocity grid, the picked velocity lies between the
   lower and the upper bound returned for that frequency, both included. *)
C26_PickedWithinBounds ==
    \A c \in PeakCalls :
        (c.r.ok /\ StrictlyIncreasing(c.velocities)) =>
            \A i \in 1..Len(c.r.picked) :
                c.r.lower[i] <= c.r.picked[i] /\ c.r.picked[i] <= c.r.upper[i]

(* C26, amended: for every restricted frequency of a call that returns, on a
   strictly increasing velocity grid, the picked velocity is at least the grid
   velocity nearest to the lower bound (which can be below that bound), is
   below the grid velocity nearest to the upper bound, and is at most the
   upper bound. *)
C26_PickedWithinNearestGridVelocities ==
    \A c \in PeakCalls :
        (c.r.ok /\ StrictlyIncreasing(c.velocities)) =>
            \A i \in 1..Len(c.r.picked) :
                /\ c.velocities[Nearest(c.velocities, c.r.lower[i])] <= c.r.picked[i]
                /\ c.r.picked[i] < c.velocities[Nearest(c.velocities, c.r.upper[i])]
                /\ c.r.picked[i] <= c.r.upper[i]

\* A call on a strictly increasing grid has returned a picked velocity below its
\* lower bound beside one inside its bounds.
C26_Witness ==
    /\ lastOp = "peak_dispersuon_curve"
    /\ peakCall.called /\ peakCall.ok
    /\ StrictlyIncreasing(peakCall.velocities)
    /\ \E i \in 1..Len(peakCall.picked) : peakCall.picked[i] < peakCall.lower[i]
    /\ \E i \in 1..Len(peakCall.picked) :
          peakCall.lower[i] < peakCall.picked[i] /\ peakCall.picked[i] < peakCall.upper[i]

----------------------------------------------------------------------------
\* The outcomes of assigning to every bound, in the current state, the value its
\* getter returns: floats, and the int the nt getter returns.
SelfAssignments ==
    { dt_setter(pmasw, [t |-> "float", v |-> pmasw.dt]),
      nt_setter(pmasw, [t |-> "int", v |-> pmasw.nt]),
      v_min_setter(pmasw, [t |-> "float", v |-> pmasw.v_min]),
      v_max_setter(pmasw, [t |-> "float", v |-> pmasw.v_max]),
      v_step_setter(pmasw, [t |-> "float", v |-> pmasw.v_step]),
      f_min_setter(pmasw, [t |-> "float", v |-> pmasw.f_min]),
      f_max_setter(pmasw, [t |-> "float", v |-> pmasw.f_max]),
      theta_min_setter(pmasw, [t |-> "float", v |-> theta_min_getter(pmasw)]),
      theta_max_setter(pmasw, [t |-> "float", v |-> theta_max_getter(pmasw)]),
      theta_step_setter(pmasw, [t |-> "float", v |-> theta_step_getter(pmasw)]) }

(* C27: in every state reachable after construction, the freshly constructed
   one with its default bounds included, assigning to any bound the value its
   getter returns succeeds and leaves every bound as it was. *)
C27_ReassignKeepsBounds ==
    \A r \in SelfAssignments : r.ok /\ Bounds(r.self) = Bounds(pmasw)

====
